---- MODULE Spec2Model ----
(***************************************************************************)
(* BookFlix backend (server/routes.js, server/server.js): the Express      *)
(* handlers and the relational tables they query.  Every handler issues    *)
(* at most one query through the pg pool and answers from its callback,    *)
(* so one request is one step of the model.                                *)
(*                                                                         *)
(* Strings are sequences of one-character strings, so that JavaScript's    *)
(* and SQL's string operations can be computed and not assumed.            *)
(***************************************************************************)
EXTENDS Integers, Sequences, FiniteSets, TLC

(***************************************************************************)
(* Bounds                                                                  *)
(***************************************************************************)
\* largest number of rows the login table holds in the model
MaxRows == 2

\* largest number of fetches a page has in flight at once in the model
MaxInFlight == 2

(***************************************************************************)
(* Characters and strings                                                  *)
(***************************************************************************)
\* the characters of the model, in ascending order of their UTF-16 code unit
Chars == <<" ", "'", ",", "-", "0", "1", "2", "3", "4", "5", "6", "7", "8", "9", "A", "B", "P",
          "Q", "a", "b", "p", "q", "t", "x">>

Ord(c) == CHOOSE i \in 1..Len(Chars) : Chars[i] = c

Digits == {"0", "1", "2", "3", "4", "5", "6", "7", "8", "9"}

DigitVal(c) == CASE c = "0" -> 0 [] c = "1" -> 1 [] c = "2" -> 2 [] c = "3" -> 3
                    [] c = "4" -> 4 [] c = "5" -> 5 [] c = "6" -> 6 [] c = "7" -> 7
                    [] c = "8" -> 8 [] c = "9" -> 9

\* the value of a sequence of decimal digits
RECURSIVE DecVal(_)
DecVal(s) == IF s = <<>> THEN 0
             ELSE 10 * DecVal(SubSeq(s, 1, Len(s) - 1)) + DigitVal(s[Len(s)])

AllDigits(s) == \A i \in 1..Len(s) : s[i] \in Digits

\* an optional minus sign followed by at least one digit
IsIntText(s) == /\ s # <<>>
                /\ IF s[1] = "-" THEN Len(s) > 1 /\ AllDigits(Tail(s))
                   ELSE AllDigits(s)

IntTextVal(s) == IF s[1] = "-" THEN 0 - DecVal(Tail(s)) ELSE DecVal(s)

(***************************************************************************)
(* JavaScript values                                                       *)
(***************************************************************************)
Str(s) == [t |-> "string", s |-> s, n |-> 0]
Num(n) == [t |-> "number", s |-> <<>>, n |-> n]
Null == [t |-> "null", s |-> <<>>, n |-> 0]
Undefined == [t |-> "undefined", s |-> <<>>, n |-> 0]
NaN == [t |-> "nan", s |-> <<>>, n |-> 0]

\* ECMAScript ToNumber, on the values and the alphabet of the model
ToNumber(x) ==
    CASE x.t = "number" -> x
      [] x.t = "nan" -> NaN
      [] x.t = "null" -> Num(0)
      [] x.t = "undefined" -> NaN
      [] x.t = "string" -> IF x.s = <<>> THEN Num(0)
                           ELSE IF IsIntText(x.s) THEN Num(IntTextVal(x.s))
                           ELSE NaN

\* a < b on strings: code unit by code unit, a proper prefix is smaller
RECURSIVE LexLess(_, _)
LexLess(a, b) ==
    IF b = <<>> THEN FALSE
    ELSE IF a = <<>> THEN TRUE
    ELSE IF a[1] # b[1] THEN Ord(a[1]) < Ord(b[1])
    ELSE LexLess(Tail(a), Tail(b))

\* the JavaScript operator x < y
JsLess(x, y) ==
    IF x.t = "string" /\ y.t = "string" THEN LexLess(x.s, y.s)
    ELSE LET nx == ToNumber(x)
             ny == ToNumber(y)
         IN  nx.t = "number" /\ ny.t = "number" /\ nx.n < ny.n

\* the JavaScript operator x === y
StrictEq(x, y) == x.t # "nan" /\ x = y

DigitChar(d) == CHOOSE c \in Digits : DigitVal(c) = d

\* the decimal digits of a natural number
RECURSIVE NatText(_)
NatText(n) == IF n < 10 THEN <<DigitChar(n)>> ELSE NatText(n \div 10) \o <<DigitChar(n % 10)>>

\* `${x}` for a string or a natural number
TemplateText(x) == IF x.t = "number" THEN NatText(x.n) ELSE x.s

\* the JavaScript operator x ?? d
Coalesce(x, d) == IF x.t \in {"undefined", "null"} THEN d ELSE x

(***************************************************************************)
(* SQL text functions                                                      *)
(***************************************************************************)
LowerChar(c) == CASE c = "A" -> "a" [] c = "B" -> "b" [] c = "P" -> "p" [] c = "Q" -> "q"
                     [] OTHER -> c

\* lower(s)
Lower(s) == [i \in 1..Len(s) |-> LowerChar(s[i])]

\* s LIKE '%t%' for a t without the wildcards % and _
Contains(s, t) == \E i \in 0..(Len(s) - Len(t)) : SubSeq(s, i + 1, i + Len(t)) = t

\* the members of a set of strings, ascending
RECURSIVE SortedStrings(_)
SortedStrings(S) ==
    IF S = {} THEN <<>>
    ELSE LET m == CHOOSE x \in S : \A y \in S \ {x} : LexLess(x, y)
         IN  <<m>> \o SortedStrings(S \ {m})

RECURSIVE JoinStrings(_)
JoinStrings(ss) ==
    IF ss = <<>> THEN <<>>
    ELSE IF Len(ss) = 1 THEN ss[1]
    ELSE ss[1] \o <<",", " ">> \o JoinStrings(Tail(ss))

\* STRING_AGG(DISTINCT x, ', ') over the set S of values of x
StringAggDistinct(S) == JoinStrings(SortedStrings(S))

(***************************************************************************)
(* HTTP responses                                                          *)
(***************************************************************************)
\* res.status(status).json({field: text})
JsonObject(status, field, text) ==
    [status |-> status, kind |-> "object", field |-> field, text |-> text, rows |-> <<>>]

\* res.status(status).json(rows)
JsonArray(status, rows) ==
    [status |-> status, kind |-> "array", field |-> "", text |-> "", rows |-> rows]

\* res.json(undefined): status 200 and no body
JsonUndefined(status) ==
    [status |-> status, kind |-> "empty", field |-> "", text |-> "", rows |-> <<>>]

\* res.status(status).json('text'): a bare JSON string
JsonString(status, text) ==
    [status |-> status, kind |-> "string", field |-> "", text |-> text, rows |-> <<>>]

NoResponse == [status |-> 0, kind |-> "none", field |-> "", text |-> "", rows |-> <<>>]

(***************************************************************************)
(* The login table and the two statements run against it                   *)
(***************************************************************************)
\* a column value: NULL or a string
SqlNull == Null

\* node-postgres turns an undefined or null query parameter into NULL
PgParam(x) == IF x.t \in {"undefined", "null"} THEN SqlNull ELSE x

\* the unique constraint on login.username; NULLs never collide
UniqueViolation(table, username) ==
    /\ username # SqlNull
    /\ \E i \in 1..Len(table) : table[i].username = username

\* SELECT * FROM login WHERE username = $1 ; a comparison with NULL is never true
SelectLogin(table, username) ==
    SelectSeq(table, LAMBDA r : username # SqlNull /\ r.username = username)

VARIABLES
    login,      \* the rows of table login, in insertion order
    req,        \* the request handled last
    res,        \* the response sent for it
    queried,    \* the number of statements sent to the database for it
    sent,       \* the calls of res.json for it, and the statements sent after the first of them
    pre,        \* table login as it was before that request
    given,      \* for each row of login, the pw of the request that created it
    catalog,    \* the rating, movie and mapping tables; the application only reads them
    page,       \* the state of the AdaptationsPage component in the browser
    bookPage,   \* the state of the BookDetailsPage component and its fetches in flight
    searchPage  \* the state of a search page component and its fetches in flight

vars == <<login, req, res, queried, sent, pre, given, catalog, page, bookPage, searchPage>>

\* a handler that calls res.json once and sends no statement afterwards
OneResponse == [calls |-> 1, queriesAfter |-> 0]

(***************************************************************************)
(* POST /signup                                                            *)
(***************************************************************************)
SignupUsernames == {Str(<<>>), Str(<<"a">>), Undefined}
SignupPws == {Str(<<"p">>), Undefined}

\* signupResponse without its error branch
signupResponseNoErrorBranch(err) ==
    JsonObject(201, "message", "User created successfully")

\* the callback of the INSERT
signupResponse(err) ==
    IF err THEN JsonObject(500, "error", "User already exists or database error!")
    ELSE JsonObject(201, "message", "User created successfully")

\* dbErr: the database fails the statement for a reason outside the model
\* (connection lost, a column constraint of the deployed schema)
signup(username, pw, dbErr) ==
    LET u == PgParam(username)
        p == PgParam(pw)
        err == dbErr \/ UniqueViolation(login, u)
    IN  /\ err \/ Len(login) < MaxRows
        /\ login' = IF err THEN login ELSE Append(login, [username |-> u, password |-> p])
        /\ req' = [endpoint |-> "signup", username |-> username, password |-> pw,
                   dbErr |-> dbErr]
        /\ given' = IF err THEN given ELSE Append(given, pw)
        /\ res' = signupResponse(err)
        /\ queried' = 1
        /\ pre' = login
        /\ sent' = OneResponse
        /\ UNCHANGED <<catalog, page, bookPage, searchPage>>

(***************************************************************************)
(* POST /login                                                             *)
(***************************************************************************)
LoginUsernames == {Str(<<>>), Str(<<"a">>), Null}
LoginPasswords == {Str(<<"p">>), Str(<<"q">>), Null, Undefined}

\* the JavaScript operator x == y, on strings, null and undefined
LooseEq(x, y) == StrictEq(x, y) \/ ({x.t, y.t} \subseteq {"null", "undefined"})

\* loginResponse that accepts any password once the row is found
loginResponseNoCompare(err, rows, password) ==
    IF err THEN JsonObject(500, "error", "Database error")
    ELSE IF Len(rows) = 0
         THEN JsonObject(401, "message", "Incorrect username/password! Try again.")
    ELSE JsonObject(200, "message", "Login successful")

\* loginResponse that tells an unknown username apart
loginResponseUserNotFound(err, rows, password) ==
    IF err THEN JsonObject(500, "error", "Database error")
    ELSE IF Len(rows) = 0
         THEN JsonObject(404, "message", "User not found")
    ELSE IF StrictEq(password, rows[1].password)
         THEN JsonObject(200, "message", "Login successful")
    ELSE JsonObject(401, "message", "Incorrect username/password! Try again.")

\* loginResponse that compares with == in place of ===
loginResponseLooseEq(err, rows, password) ==
    IF err THEN JsonObject(500, "error", "Database error")
    ELSE IF Len(rows) = 0
         THEN JsonObject(401, "message", "Incorrect username/password! Try again.")
    ELSE IF LooseEq(password, rows[1].password)
         THEN JsonObject(200, "message", "Login successful")
    ELSE JsonObject(401, "message", "Incorrect username/password! Try again.")

\* the callback of the SELECT
loginResponse(err, rows, password) ==
    IF err THEN JsonObject(500, "error", "Database error")
    ELSE IF Len(rows) = 0
         THEN JsonObject(401, "message", "Incorrect username/password! Try again.")
    ELSE IF StrictEq(password, rows[1].password)
         THEN JsonObject(200, "message", "Login successful")
    ELSE JsonObject(401, "message", "Incorrect username/password! Try again.")

loginHandler(username, password, dbErr) ==
    /\ req' = [endpoint |-> "login", username |-> username, password |-> password,
               dbErr |-> dbErr]
    /\ res' = loginResponse(dbErr, SelectLogin(login, PgParam(username)), password)
    /\ queried' = 1
    /\ pre' = login
    /\ sent' = OneResponse
    /\ UNCHANGED <<login, given, catalog, page, bookPage, searchPage>>

(***************************************************************************)
(* The book tables; the application only reads them.  Years are small      *)
(* numbers with one and two digits.  The columns description, image_link   *)
(* and publisher are passed through unread and are left out.               *)
(***************************************************************************)
books_data ==
    { [book_id |-> 1, title |-> <<"A", "b">>, year |-> 10],
      [book_id |-> 2, title |-> <<"b", "a">>, year |-> 9],
      [book_id |-> 3, title |-> <<"a", "B">>, year |-> 2] }

\* book 3 has no author
books_authors ==
    { [book_id |-> 1, author_name |-> <<"A">>],
      [book_id |-> 1, author_name |-> <<"b">>],
      [book_id |-> 2, author_name |-> <<"a">>] }

books_genres ==
    { [book_id |-> 1, genre_name |-> <<"p">>],
      [book_id |-> 2, genre_name |-> <<"p">>],
      [book_id |-> 2, genre_name |-> <<"q">>],
      [book_id |-> 3, genre_name |-> <<"x">>] }

\* the rows of a result set, ordered by the text column the ORDER BY names
RECURSIVE OrderByTitle(_)
OrderByTitle(S) ==
    IF S = {} THEN <<>>
    ELSE LET m == CHOOSE r \in S : \A o \in S \ {r} : LexLess(r.title, o.title)
         IN  <<m>> \o OrderByTitle(S \ {m})

(***************************************************************************)
(* Request parameters spliced into the text of a statement.  A parameter   *)
(* without a quote stays inside its string literal.  A parameter with a    *)
(* quote ends the literal: what follows is parsed as SQL, and since a      *)
(* query without a values array goes through the simple query protocol, a  *)
(* well-formed continuation may hold further statements.  In such a        *)
(* parameter a whole clause is written as one element of the sequence.     *)
(***************************************************************************)
DeletePayload ==
    <<"'", ");", "DELETE FROM login;", "SELECT 1 FROM books_data bd, books_authors ba, books_genres bg WHERE 'a' LIKE lower(", "'">>

UpdatePayload ==
    <<"'", ");", "UPDATE login SET password = 'q';", "SELECT 1 FROM books_data bd, books_authors ba, books_genres bg WHERE 'a' LIKE lower(", "'">>

HasQuote(s) == \E i \in 1..Len(s) : s[i] = "'"

\* what the parser makes of '%${s}%': "literal", an added statement, or "error"
SplicedText(s) ==
    IF ~HasQuote(s) THEN "literal"
    ELSE IF s = DeletePayload THEN "delete"
    ELSE IF s = UpdatePayload THEN "update"
    ELSE "error"

\* what the parser makes of an unquoted ${x}: a number, or a name no table has
SplicedNumber(x) == IF x.t = "string" /\ IsIntText(x.s) THEN "number" ELSE "error"

\* table login after the statement a payload adds
RunInjected(kind, table) ==
    CASE kind = "delete" -> <<>>
      [] kind = "update" -> [i \in 1..Len(table) |-> [table[i] EXCEPT !.password = Str(<<"q">>)]]
      [] OTHER -> table

(***************************************************************************)
(* GET /books/search                                                       *)
(***************************************************************************)
YearParams == {Undefined, Str(<<"2">>), Str(<<"9">>), Str(<<"1", "0">>), Str(<<"x">>)}
TitleParams == {Undefined, Str(<<"a">>), Str(<<"'">>), Str(DeletePayload), Str(UpdatePayload)}
NameParams == {Undefined, Str(<<"A">>)}
GenreParams == {Undefined, Str(<<"p">>)}

\* the query strings of the model: every pair of years with the default
\* texts, and each text parameter in turn with a pair of years that passes
SearchQueries ==
    { [title |-> Undefined, name |-> Undefined, genre |-> Undefined,
       yearLow |-> l, yearHigh |-> h] : l \in YearParams, h \in YearParams }
    \cup
    { [title |-> t, name |-> n, genre |-> g,
       yearLow |-> Str(<<"2">>), yearHigh |-> Str(<<"9">>)] :
         <<t, n, g>> \in (TitleParams \X {Undefined} \X {Undefined})
                        \cup ({Undefined} \X NameParams \X {Undefined})
                        \cup ({Undefined} \X {Undefined} \X GenreParams) }

\* if (yearHigh < yearLow)
InvalidYearRange(yearLow, yearHigh) == JsLess(yearHigh, yearLow)

\* the joined rows bd x ba x bg that pass the WHERE clause
SearchJoin(bookTitle, authorName, genreName, low, high) ==
    { j \in [bd : books_data, ba : books_authors, bg : books_genres] :
        /\ j.bd.book_id = j.ba.book_id
        /\ j.bd.book_id = j.bg.book_id
        /\ Contains(Lower(j.bd.title), Lower(bookTitle))
        /\ Contains(Lower(j.ba.author_name), Lower(authorName))
        /\ Contains(Lower(j.bg.genre_name), Lower(genreName))
        /\ j.bd.year >= low
        /\ j.bd.year <= high }

\* GROUP BY bd.book_id, ... ORDER BY bd.title
SearchRows(bookTitle, authorName, genreName, low, high) ==
    LET J == SearchJoin(bookTitle, authorName, genreName, low, high)
    IN  OrderByTitle(
          { [book_id |-> b.book_id,
             title |-> b.title,
             author_name |-> StringAggDistinct({j.ba.author_name : j \in {k \in J : k.bd = b}}),
             year_published |-> b.year,
             genre_name |-> StringAggDistinct({j.bg.genre_name : j \in {k \in J : k.bd = b}})] :
            b \in {j.bd : j \in J} })

\* how the database takes the statement text: "error", "rows" or the kind of
\* the statement a payload added
SearchOutcome(q, dbErr) ==
    LET texts == <<Coalesce(q.title, Str(<<>>)).s, Coalesce(q.name, Str(<<>>)).s,
                   Coalesce(q.genre, Str(<<>>)).s>>
        kinds == [i \in 1..3 |-> SplicedText(texts[i])]
        added == {i \in 1..3 : kinds[i] \notin {"literal", "error"}}
    IN  IF dbErr \/ (\E i \in 1..3 : kinds[i] = "error") \/ Cardinality(added) > 1
           \/ SplicedNumber(q.yearLow) = "error" \/ SplicedNumber(q.yearHigh) = "error"
        THEN "error"
        ELSE IF added = {} THEN "rows"
        ELSE kinds[CHOOSE i \in added : TRUE]

\* the callback of the query; with several statements data is an array of
\* results and data.rows is undefined
searchResponse(q, outcome) ==
    IF outcome = "error" THEN JsonObject(500, "error", "Internal Server Error")
    ELSE IF outcome = "rows"
         THEN JsonArray(200, SearchRows(Coalesce(q.title, Str(<<>>)).s,
                                        Coalesce(q.name, Str(<<>>)).s,
                                        Coalesce(q.genre, Str(<<>>)).s,
                                        IntTextVal(q.yearLow.s), IntTextVal(q.yearHigh.s)))
    ELSE JsonUndefined(200)

search_books(q, dbErr) ==
    /\ req' = [endpoint |-> "search_books", query |-> q, dbErr |-> dbErr]
    /\ pre' = login
    /\ sent' = OneResponse
    /\ UNCHANGED <<catalog, page, bookPage, searchPage>>
    /\ IF InvalidYearRange(q.yearLow, q.yearHigh)
       THEN /\ res' = JsonObject(404, "error", "Invalid year range")
            /\ queried' = 0
            /\ UNCHANGED <<login, given>>
       ELSE LET outcome == SearchOutcome(q, dbErr)
            IN  /\ res' = searchResponse(q, outcome)
                /\ queried' = 1
                /\ login' = RunInjected(outcome, login)
                /\ given' = IF outcome = "delete" THEN <<>> ELSE given

(***************************************************************************)
(* GET /book/details/:book_id                                              *)
(***************************************************************************)
BookIdParams == { Str(<<"1">>), Str(<<"2">>), Str(<<"3">>), Str(<<"9">>), Str(<<"-", "1">>),
                  Str(<<"-", "9">>), Str(<<"-", "0">>), Str(<<"-", "1", "0">>),
                  Str(<<"-">>), Str(<<"x">>) }

\* the check of get_movie_adaptations_for_book, book_id < -1, used here
NegativeBookIdBelowMinusOne(book_id) == JsLess(book_id, Num(0 - 1))

\* if (book_id < 0)
NegativeBookId(book_id) == JsLess(book_id, Num(0))

\* a result set without ORDER BY, in the order the database happens to use
RECURSIVE RowsOf(_)
RowsOf(S) ==
    IF S = {} THEN <<>>
    ELSE LET r == CHOOSE x \in S : TRUE
         IN  <<r>> \o RowsOf(S \ {r})

\* bd JOIN ba WHERE bd.book_id = '<id>' GROUP BY bd.book_id, ... ;
\* STRING_AGG(ba.author_name, ', ' ORDER BY ba.author_name)
DetailsRows(id) ==
    RowsOf(
      { [book_id |-> b.book_id,
         book_title |-> b.title,
         book_published_date |-> b.year,
         authors |-> JoinStrings(SortedStrings(
                       {a.author_name : a \in {x \in books_authors : x.book_id = b.book_id}}))] :
        b \in {x \in books_data :
                 x.book_id = id /\ \E a \in books_authors : a.book_id = x.book_id} })

\* the comparison bd.book_id = '<text>' casts the text to the integer type of
\* the column and fails when it is not an integer
DetailsQueryFails(book_id, dbErr) == dbErr \/ ~IsIntText(book_id.s)

\* data.rows.length in place of data.length
DataLengthOfRows(rows) == Num(Len(rows))

\* the pg result object: it has rows and rowCount, and no length
DataLength(rows) == Undefined

\* the callback of the query
detailsResponse(err, rows) ==
    IF err THEN JsonObject(500, "error", "Internal Server Error")
    ELSE IF StrictEq(DataLength(rows), Num(0)) THEN JsonObject(404, "message", "No books found")
    ELSE JsonArray(200, rows)

get_book_details(book_id, dbErr) ==
    /\ req' = [endpoint |-> "get_book_details", book_id |-> book_id, dbErr |-> dbErr]
    /\ pre' = login
    /\ sent' = OneResponse
    /\ UNCHANGED <<login, given, catalog, page, bookPage, searchPage>>
    /\ IF NegativeBookId(book_id)
       THEN /\ res' = JsonObject(404, "message", "No books found")
            /\ queried' = 0
       ELSE LET err == DetailsQueryFails(book_id, dbErr)
            IN  /\ res' = detailsResponse(err, IF err THEN <<>> ELSE DetailsRows(IntTextVal(book_id.s)))
                /\ queried' = 1

(***************************************************************************)
(* The rating, movie and mapping tables.  They are loaded outside the      *)
(* application; the model runs the handlers over a family of contents.     *)
(* A review is identified by id, which also stands for its text.           *)
(***************************************************************************)
ReviewPool ==
    { [id |-> 1, book_id |-> 1, rating |-> 5],
      [id |-> 2, book_id |-> 2, rating |-> 1],
      [id |-> 3, book_id |-> 2, rating |-> 2],
      [id |-> 4, book_id |-> 1, rating |-> 1] }

Tconsts == {<<"t", "1">>, <<"t", "2">>}

\* title and flag columns of movies_metadata; runtimeMinutes is in the catalog
movies_titles ==
    { [tconst |-> <<"t", "1">>, primaryTitle |-> <<"x", "x">>, originalTitle |-> <<"A", "b">>,
       isAdult |-> FALSE],
      [tconst |-> <<"t", "2">>, primaryTitle |-> <<"B", "a">>, originalTitle |-> <<"B", "a">>,
       isAdult |-> TRUE] }

movies_genres ==
    { [movie_id |-> <<"t", "1">>, genre |-> <<"p">>],
      [movie_id |-> <<"t", "2">>, genre |-> <<"p">>],
      [movie_id |-> <<"t", "2">>, genre |-> <<"Q">>] }

MapPool == {1, 2} \X Tconsts
Runtimes == {90, 120}
MovieRatings == {3, 8, 9}

BaseCatalog ==
    [ books_rating |-> {r \in ReviewPool : r.id \in {1, 2}},
      books_movies_map |-> {<<1, <<"t", "1">>>>, <<1, <<"t", "2">>>>},
      runtimeMinutes |-> [t \in Tconsts |-> IF t = <<"t", "1">> THEN 90 ELSE 120],
      averageRating |-> [t \in Tconsts |-> IF t = <<"t", "1">> THEN 9 ELSE 8],
      BookStats |-> [avg_rating |-> 4, stddev_rating |-> 1],
      MovieStats |-> [avg_rating |-> 6, stddev_rating |-> 1] ]

\* the contents the model runs over: every mapping with every runtime, and
\* every set of reviews with every movie rating
Catalogs ==
    { [BaseCatalog EXCEPT !.books_movies_map = m, !.runtimeMinutes = rt] :
        m \in SUBSET MapPool, rt \in [Tconsts -> Runtimes] }
    \cup
    { [BaseCatalog EXCEPT !.books_rating = br, !.averageRating = ar] :
        br \in SUBSET ReviewPool, ar \in [Tconsts -> MovieRatings] }

(***************************************************************************)
(* GET /books/reviews                                                      *)
(***************************************************************************)
ReviewBookIds == { Undefined, Str(<<"1">>), Str(<<"2">>), Str(<<"3">>), Str(<<"9">>),
                   Str(<<"-", "1">>), Str(<<"x">>) }
ReviewRatingParams ==
    { <<Undefined, Undefined>>, <<Str(<<"2">>), Undefined>>, <<Undefined, Str(<<"1">>)>>,
      <<Str(<<"x">>), Undefined>> }

\* the query strings of the model: every book_id with the default ratings,
\* and every pair of ratings with a book that may have reviews
ReviewQueries ==
    { [book_id |-> b, minrating |-> Undefined, maxrating |-> Undefined] : b \in ReviewBookIds }
    \cup
    { [book_id |-> Str(<<"2">>), minrating |-> mm[1], maxrating |-> mm[2]] :
        mm \in ReviewRatingParams }

\* the rows of a set of reviews, highest rating first
RECURSIVE OrderByRatingDesc(_)
OrderByRatingDesc(S) ==
    IF S = {} THEN <<>>
    ELSE LET m == CHOOSE r \in S : \A o \in S : o.book_rating <= r.book_rating
         IN  <<m>> \o OrderByRatingDesc(S \ {m})

\* books_rating r INNER JOIN books_data b WHERE b.book_id = .. AND r.rating >= .. AND r.rating <= ..
ReviewRows(cat, id, lo, hi) ==
    OrderByRatingDesc(
      { [book_title |-> b.title, book_review |-> r.id, book_rating |-> r.rating] :
          <<r, b>> \in { rb \in cat.books_rating \X books_data :
                           /\ rb[1].book_id = rb[2].book_id
                           /\ rb[2].book_id = id
                           /\ rb[1].rating >= lo
                           /\ rb[1].rating <= hi } })

\* the three quoted values are cast to the type of their column
ReviewQueryFails(book_id, minRating, maxRating, dbErr) ==
    \/ dbErr
    \/ ~IsIntText(TemplateText(book_id))
    \/ ~IsIntText(TemplateText(minRating))
    \/ ~IsIntText(TemplateText(maxRating))

\* the callback of the query
reviewsResponse(err, rows, book_id) ==
    IF err THEN JsonString(500, "Internal Server Error")
    ELSE IF StrictEq(DataLength(rows), Num(0))
         THEN JsonString(404, "No reviews found for the specified book title")
    ELSE IF JsLess(book_id, Num(0))
         THEN JsonString(404, "No reviews found for the specified book title")
    ELSE JsonArray(200, rows)

get_book_reviews(q, dbErr) ==
    LET book_id == Coalesce(q.book_id, Str(<<>>))
        minRating == Coalesce(q.minrating, Num(0))
        maxRating == Coalesce(q.maxrating, Num(5))
    IN  /\ req' = [endpoint |-> "get_book_reviews", query |-> q, dbErr |-> dbErr]
        /\ pre' = login
        /\ sent' = OneResponse
        /\ UNCHANGED <<login, given, catalog, page, bookPage, searchPage>>
        /\ IF JsLess(book_id, Num(0))
           THEN /\ res' = JsonString(404, "Internal Server Error")
                /\ queried' = 0
           ELSE LET err == ReviewQueryFails(book_id, minRating, maxRating, dbErr)
                IN  /\ res' = reviewsResponse(err,
                                 IF err THEN <<>>
                                 ELSE ReviewRows(catalog, IntTextVal(TemplateText(book_id)),
                                                 IntTextVal(TemplateText(minRating)),
                                                 IntTextVal(TemplateText(maxRating))),
                                 book_id)
                    /\ queried' = 1

(***************************************************************************)
(* GET /search/movies                                                      *)
(***************************************************************************)
MovieDeletePayload ==
    <<"'", "));", "DELETE FROM login;", "SELECT 1 FROM movies_metadata d, movies_ratings r, movies_genres g WHERE (d.tconst LIKE lower(", "'">>

MovieDefaults ==
    [movieTitle |-> Undefined, isAdult |-> Undefined, genre |-> Undefined,
     minRunTimeMinutes |-> Undefined, maxRunTimeMinutes |-> Undefined,
     minRating |-> Undefined, maxRating |-> Undefined]

\* the query strings of the model: the defaults with one parameter given
MovieQueries ==
    { [MovieDefaults EXCEPT !.movieTitle = t] :
        t \in {Undefined, Str(<<"a">>), Str(<<"A", "B">>), Str(<<"x">>), Str(<<"'">>),
               Str(MovieDeletePayload)} }
    \cup { [MovieDefaults EXCEPT !.isAdult = a] : a \in {Str(<<"true">>), Str(<<"false">>), Str(<<"x">>)} }
    \cup { [MovieDefaults EXCEPT !.genre = g] : g \in {Str(<<"q">>), Str(<<"P">>), Str(<<"'">>)} }
    \cup { [MovieDefaults EXCEPT !.minRunTimeMinutes = n] : n \in {Str(<<"1", "0", "0">>), Str(<<"x">>)} }
    \cup { [MovieDefaults EXCEPT !.maxRunTimeMinutes = n] : n \in {Str(<<"9", "0">>)} }
    \cup { [MovieDefaults EXCEPT !.minRating = n] : n \in {Str(<<"9">>)} }
    \cup { [MovieDefaults EXCEPT !.maxRating = n] : n \in {Str(<<"3">>)} }

\* the parameters after the ?? defaults, as the template writes them
MovieFilters(q) ==
    [movieTitle |-> TemplateText(Coalesce(q.movieTitle, Str(<<>>))),
     isAdult |-> TemplateText(Coalesce(q.isAdult, Str(<<"false">>))),
     genre |-> TemplateText(Coalesce(q.genre, Str(<<>>))),
     minRunTimeMinutes |-> TemplateText(Coalesce(q.minRunTimeMinutes, Num(1))),
     maxRunTimeMinutes |-> TemplateText(Coalesce(q.maxRunTimeMinutes, Num(60000))),
     minRating |-> TemplateText(Coalesce(q.minRating, Num(0))),
     maxRating |-> TemplateText(Coalesce(q.maxRating, Num(10)))]

\* how the database takes the statement text: "error", "rows" or "delete"
MovieSearchOutcome(f, dbErr) ==
    LET title == IF ~HasQuote(f.movieTitle) THEN "literal"
                 ELSE IF f.movieTitle = MovieDeletePayload THEN "delete" ELSE "error"
    IN  IF \/ dbErr
           \/ title = "error"
           \/ HasQuote(f.genre)
           \/ f.isAdult \notin {<<"true">>, <<"false">>}
           \/ \E n \in {f.minRunTimeMinutes, f.maxRunTimeMinutes, f.minRating, f.maxRating} :
                 ~IsIntText(n)
        THEN "error"
        ELSE IF title = "literal" THEN "rows" ELSE "delete"

\* (lower(d.primaryTitle) LIKE lower('%..%') OR d.originalTitle LIKE lower('%..%'))
TitleFilter(d, movieTitle) ==
    \/ Contains(Lower(d.primaryTitle), Lower(movieTitle))
    \/ Contains(d.originalTitle, Lower(movieTitle))

\* movies_metadata d LEFT JOIN movies_ratings r LEFT JOIN movies_genres g WHERE ..
MovieSearchJoin(cat, f) ==
    { j \in [d : movies_titles, g : movies_genres] :
        /\ j.d.tconst = j.g.movie_id
        /\ TitleFilter(j.d, f.movieTitle)
        /\ cat.runtimeMinutes[j.d.tconst] >= IntTextVal(f.minRunTimeMinutes)
        /\ cat.runtimeMinutes[j.d.tconst] <= IntTextVal(f.maxRunTimeMinutes)
        /\ Contains(Lower(j.g.genre), Lower(f.genre))
        /\ j.d.isAdult = (f.isAdult = <<"true">>)
        /\ cat.averageRating[j.d.tconst] >= IntTextVal(f.minRating)
        /\ cat.averageRating[j.d.tconst] <= IntTextVal(f.maxRating) }

\* the rows of the join without the GROUP BY: one row for each genre row
MovieSearchRowsUngrouped(cat, f) ==
    { [tconst |-> j.d.tconst,
       primaryTitle |-> j.d.primaryTitle,
       originalTitle |-> j.d.originalTitle,
       isAdult |-> j.d.isAdult,
       runtimeMinutes |-> cat.runtimeMinutes[j.d.tconst],
       genres |-> j.g.genre,
       averageRating |-> cat.averageRating[j.d.tconst]] : j \in MovieSearchJoin(cat, f) }

\* GROUP BY d.tconst, ..: one row for each movie of the join
MovieSearchGroups(cat, f) ==
    LET J == MovieSearchJoin(cat, f)
    IN  { [tconst |-> d.tconst,
           primaryTitle |-> d.primaryTitle,
           originalTitle |-> d.originalTitle,
           isAdult |-> d.isAdult,
           runtimeMinutes |-> cat.runtimeMinutes[d.tconst],
           genres |-> JoinStrings(SortedStrings({j.g.genre : j \in {k \in J : k.d = d}})),
           averageRating |-> cat.averageRating[d.tconst]] :
            d \in {j.d : j \in J} }

\* the orders in which a query without ORDER BY may return the rows of S
AnyOrder(S) ==
    { s \in [1..Cardinality(S) -> S] : \A i, j \in 1..Cardinality(S) : i # j => s[i] # s[j] }

searchMovies(q, dbErr) ==
    LET f == MovieFilters(q)
        outcome == MovieSearchOutcome(f, dbErr)
    IN  /\ req' = [endpoint |-> "searchMovies", query |-> q, dbErr |-> dbErr]
        /\ pre' = login
        /\ sent' = OneResponse
        /\ queried' = 1
        /\ login' = RunInjected(outcome, login)
        /\ given' = IF outcome = "delete" THEN <<>> ELSE given
        /\ UNCHANGED <<catalog, page, bookPage, searchPage>>
        /\ IF outcome = "error" THEN res' = JsonObject(500, "error", "Internal Server Error")
           ELSE IF outcome = "rows"
                THEN \E rows \in AnyOrder(MovieSearchGroups(catalog, f)) : res' = JsonArray(200, rows)
           ELSE res' = JsonUndefined(200)

(***************************************************************************)
(* GET /movies/details/:tconst                                             *)
(***************************************************************************)
MovieIdParams == { Str(<<>>), Str(<<"t", "1">>), Str(<<"t", "9">>), Str(<<"'">>) }

\* movies_metadata d LEFT JOIN movies_ratings r LEFT JOIN movies_genres g
\* WHERE d.tconst = '..' AND d.runtimeMinutes > 0 GROUP BY d.tconst, ..
MovieDetailsRows(cat, tconst) ==
    { [tconst |-> d.tconst,
       primaryTitle |-> d.primaryTitle,
       originalTitle |-> d.originalTitle,
       isAdult |-> d.isAdult,
       runtimeMinutes |-> cat.runtimeMinutes[d.tconst],
       genres |-> JoinStrings(SortedStrings({g.genre : g \in {g \in movies_genres : g.movie_id = d.tconst}})),
       averageRating |-> cat.averageRating[d.tconst]] :
        d \in {d \in movies_titles : d.tconst = tconst /\ cat.runtimeMinutes[d.tconst] > 0} }

\* the callback of the query
movieDetailsResponse(err, rows) ==
    IF err THEN JsonObject(500, "error", "Internal Server Error") ELSE JsonArray(200, rows)

\* with an empty tconst the 404 is sent and the handler goes on: the query is
\* sent, and the res.json of its callback finds the response already sent
moviesDetailsWithId(tconst, dbErr) ==
    LET err == dbErr \/ HasQuote(tconst.s)
        rows == IF err THEN {} ELSE MovieDetailsRows(catalog, tconst.s)
    IN  /\ req' = [endpoint |-> "moviesDetailsWithId", tconst |-> tconst, dbErr |-> dbErr]
        /\ pre' = login
        /\ queried' = 1
        /\ UNCHANGED <<login, given, catalog, page, bookPage, searchPage>>
        /\ IF Len(tconst.s) = 0
           THEN /\ res' = JsonObject(404, "error", "Internal Server Error")
                /\ sent' = [calls |-> 2, queriesAfter |-> 1]
           ELSE /\ \E order \in AnyOrder(rows) : res' = movieDetailsResponse(err, order)
                /\ sent' = OneResponse

(***************************************************************************)
(* SQL numeric values: exact fractions, and NULL written with den = 0      *)
(***************************************************************************)
RECURSIVE Gcd(_, _)
Gcd(a, b) == IF b = 0 THEN a ELSE Gcd(b, a % b)

Abs(n) == IF n < 0 THEN 0 - n ELSE n

\* the fraction n / d in lowest terms, d # 0
Frac(n, d) ==
    LET g == Gcd(Abs(n), Abs(d))
        sgn == IF d < 0 THEN 0 - 1 ELSE 1
    IN  [num |-> sgn * (n \div g), den |-> sgn * (d \div g)]

NullFrac == [num |-> 0, den |-> 0]

FracLess(x, y) == x.num * y.den < y.num * x.den

FracAbs(x) == [num |-> Abs(x.num), den |-> x.den]

\* SUM(rating) over a set of review rows
RECURSIVE SumRatings(_)
SumRatings(S) ==
    IF S = {} THEN 0
    ELSE LET x == CHOOSE y \in S : TRUE
         IN  x.rating + SumRatings(S \ {x})

\* AVG(rating) over the reviews of one book; NULL when it has none
AvgBookRating(cat, book_id) ==
    LET rs == {r \in cat.books_rating : r.book_id = book_id}
    IN  IF rs = {} THEN NullFrac
        ELSE Frac(SumRatings(rs), Cardinality(rs))

(***************************************************************************)
(* GET /adaptations/movies/:book_id                                        *)
(***************************************************************************)
AdaptationBookIds == { Str(<<"1">>), Str(<<"2">>), Str(<<"3">>), Str(<<"9">>), Str(<<"-", "1">>),
                       Str(<<"-", "9">>), Str(<<"x">>) }

\* books_data b JOIN books_movies_map bm JOIN movies_metadata m
\* LEFT JOIN AverageBookRating abr LEFT JOIN movies_ratings mr WHERE b.book_id = ..
MovieAdaptationJoin(cat, id) ==
    { [book_title |-> b.title,
       book_published_date |-> b.year,
       book_average_rating |-> AvgBookRating(cat, b.book_id),
       movie_title |-> m.primaryTitle,
       avg_movie_rating |-> cat.averageRating[m.tconst],
       is_movie_adult |-> m.isAdult,
       movie_id |-> m.tconst] :
        <<b, m>> \in { bm \in books_data \X movies_titles :
                         /\ bm[1].book_id = id
                         /\ <<bm[1].book_id, bm[2].tconst>> \in cat.books_movies_map } }

\* ORDER BY m.runtimeminutes ASC LIMIT 1
MovieAdaptationFirstAscending(cat, id) ==
    LET J == MovieAdaptationJoin(cat, id)
    IN  {r \in J : \A o \in J : cat.runtimeMinutes[o.movie_id] >= cat.runtimeMinutes[r.movie_id]}

\* ORDER BY m.runtimeminutes DESC LIMIT 1: the rows that may come first
MovieAdaptationFirst(cat, id) ==
    LET J == MovieAdaptationJoin(cat, id)
    IN  {r \in J : \A o \in J : cat.runtimeMinutes[o.movie_id] <= cat.runtimeMinutes[r.movie_id]}

\* the callback of the query; with several statements data is an array of
\* results and data.rows is undefined
adaptationResponse(outcome, rows) ==
    IF outcome = "error" THEN JsonObject(500, "error", "Internal Server Error")
    ELSE IF outcome = "rows" THEN JsonArray(200, rows)
    ELSE JsonUndefined(200)

get_movie_adaptations_for_book(book_id, dbErr) ==
    /\ req' = [endpoint |-> "get_movie_adaptations_for_book", book_id |-> book_id,
               dbErr |-> dbErr]
    /\ pre' = login
    /\ sent' = OneResponse
    /\ UNCHANGED <<login, given, catalog, page, bookPage, searchPage>>
    /\ IF JsLess(book_id, Num(0 - 1))
       THEN /\ res' = JsonObject(500, "error", "Internal Server Error")
            /\ queried' = 0
       ELSE LET outcome == IF dbErr \/ SplicedNumber(book_id) = "error" THEN "error" ELSE "rows"
                first == IF outcome = "rows"
                         THEN MovieAdaptationFirst(catalog, IntTextVal(book_id.s)) ELSE {}
            IN  /\ queried' = 1
                /\ IF first = {}
                   THEN res' = adaptationResponse(outcome, <<>>)
                   ELSE \E r \in first : res' = adaptationResponse(outcome, <<r>>)

(***************************************************************************)
(* GET /adaptations/books/:tconst                                          *)
(***************************************************************************)
TconstDeletePayload ==
    <<"'", ";", "DELETE FROM login;", "SELECT 1 FROM movies_metadata m WHERE m.tconst = ", "'">>

TconstParams == { Str(<<"t", "1">>), Str(<<"t", "2">>), Str(<<"t", "9">>), Str(<<"'">>),
                  Str(TconstDeletePayload) }

\* what the parser makes of '${tconst}': "literal", an added statement, or "error"
SplicedTconst(s) ==
    IF ~HasQuote(s) THEN "literal"
    ELSE IF s = TconstDeletePayload THEN "delete"
    ELSE "error"

\* movies_metadata m JOIN books_movies_map bm JOIN books_data b
\* LEFT JOIN AverageBookRating abr LEFT JOIN movies_ratings mr WHERE m.tconst = '..'
\* ORDER BY m.runtimeminutes DESC LIMIT 1: every row has the runtime of the
\* one movie, so any of them may come first
BookAdaptationFirst(cat, tconst) ==
    { [book_id |-> b.book_id,
       book_title |-> b.title,
       book_rating |-> AvgBookRating(cat, b.book_id),
       movie_title |-> m.primaryTitle,
       avg_movie_rating |-> cat.averageRating[m.tconst],
       is_movie_adult |-> m.isAdult] :
        <<b, m>> \in { bm \in books_data \X movies_titles :
                         /\ bm[2].tconst = tconst
                         /\ <<bm[1].book_id, bm[2].tconst>> \in cat.books_movies_map } }

get_book_adaptations_for_movie(tconstParam, dbErr) ==
    LET tconst == Coalesce(tconstParam, Str(<<>>))
    IN  /\ req' = [endpoint |-> "get_book_adaptations_for_movie", tconst |-> tconstParam,
                   dbErr |-> dbErr]
        /\ pre' = login
        /\ sent' = OneResponse
        /\ UNCHANGED <<catalog, page, bookPage, searchPage>>
        /\ IF Len(tconst.s) = 0
           THEN /\ res' = JsonObject(500, "error", "Internal Server Error")
                /\ queried' = 0
                /\ UNCHANGED <<login, given>>
           ELSE LET spliced == SplicedTconst(tconst.s)
                    outcome == IF dbErr \/ spliced = "error" THEN "error"
                               ELSE IF spliced = "literal" THEN "rows"
                               ELSE spliced
                    first == IF outcome = "rows" THEN BookAdaptationFirst(catalog, tconst.s) ELSE {}
                IN  /\ queried' = 1
                    /\ login' = RunInjected(outcome, login)
                    /\ given' = IF outcome = "delete" THEN <<>> ELSE given
                    /\ IF first = {}
                       THEN res' = adaptationResponse(outcome, <<>>)
                       ELSE \E r \in first : res' = adaptationResponse(outcome, <<r>>)

(***************************************************************************)
(* GET /analytics/BookAndMovieOutliers                                     *)
(***************************************************************************)
\* (avg - stats.avg_rating) / stats.stddev_rating
ZScore(avg, stats) ==
    Frac(avg.num - stats.avg_rating * avg.den, avg.den * stats.stddev_rating)

\* HAVING z > 2
HavingAboveTwo(z) == FracLess(Frac(2, 1), z)

\* HAVING ABS(z) > 2
HavingAbsAboveTwo(z) == FracLess(Frac(2, 1), FracAbs(z))

\* books_rating br JOIN books_data bd .. GROUP BY bd.title HAVING ..
BookOutliers(cat) ==
    LET titles == {b.title : b \in {b \in books_data : \E r \in cat.books_rating : r.book_id = b.book_id}}
        avgOf(t) == LET rs == {r \in cat.books_rating :
                                 \E b \in books_data : b.title = t /\ b.book_id = r.book_id}
                    IN  Frac(SumRatings(rs), Cardinality(rs))
    IN  { [media_type |-> "Book", media_title |-> t, avg_rating |-> avgOf(t),
           z_score |-> ZScore(avgOf(t), cat.BookStats)] :
            t \in {t \in titles : HavingAbsAboveTwo(ZScore(avgOf(t), cat.BookStats))} }

\* movies_ratings mr JOIN movies_metadata mm .. GROUP BY mm.primarytitle HAVING ..
MovieOutliers(cat) ==
    LET titles == {m.primaryTitle : m \in movies_titles}
        avgOf(t) == LET ms == {[rating |-> cat.averageRating[m.tconst], tconst |-> m.tconst] :
                                 m \in {m \in movies_titles : m.primaryTitle = t}}
                    IN  Frac(SumRatings(ms), Cardinality(ms))
    IN  { [media_type |-> "Movie", media_title |-> t, avg_rating |-> avgOf(t),
           z_score |-> ZScore(avgOf(t), cat.MovieStats)] :
            t \in {t \in titles : HavingAbsAboveTwo(ZScore(avgOf(t), cat.MovieStats))} }

\* the orders of the rows of S in which z_score never increases
ZScoreDescOrders(S) ==
    { s \in [1..Cardinality(S) -> S] :
        /\ \A i, j \in 1..Cardinality(S) : i # j => s[i] # s[j]
        /\ \A i \in 1..(Cardinality(S) - 1) : ~FracLess(s[i].z_score, s[i + 1].z_score) }

\* each SELECT ordered on its own, the Book rows before the Movie rows
OutlierOrdersPerSelect(cat) ==
    { b \o m : b \in ZScoreDescOrders(BookOutliers(cat)), m \in ZScoreDescOrders(MovieOutliers(cat)) }

\* SELECT .. FROM BookOutliers UNION ALL SELECT .. FROM MovieOutliers ORDER BY z_score DESC
OutlierOrders(cat) == ZScoreDescOrders(BookOutliers(cat) \cup MovieOutliers(cat))

BookAndMovieOutliers(dbErr) ==
    /\ req' = [endpoint |-> "BookAndMovieOutliers", dbErr |-> dbErr]
    /\ pre' = login
    /\ sent' = OneResponse
    /\ queried' = 1
    /\ UNCHANGED <<login, given, catalog, page, bookPage, searchPage>>
    /\ IF dbErr
       THEN res' = JsonObject(500, "error", "Internal Server Error")
       ELSE \E rows \in OutlierOrders(catalog) : res' = JsonArray(200, rows)

\* the AdaptationsPage component before its first effect has run
NoAdaptationData ==
    [loaded |-> FALSE, book_average_rating |-> NullFrac, avg_movie_rating |-> NullFrac]

InitialPage ==
    [loading |-> TRUE, error |-> "", noAdaptations |-> FALSE, adaptationData |-> NoAdaptationData,
     movieDetailsOmdb |-> "null", effect |-> "pending"]

(***************************************************************************)
(* AdaptationsPage (client/src/pages/Adaptations.js)                       *)
(***************************************************************************)
\* the ratings a row of /adaptations/movies/:book_id may carry
PageBookRatings == {NullFrac, Frac(1, 1), Frac(5, 2), Frac(4, 1), Frac(9, 2), Frac(5, 1)}
PageMovieRatings == {NullFrac, Frac(3, 1), Frac(5, 1), Frac(8, 1), Frac(9, 1), Frac(10, 1)}

AdaptationRows ==
    { [loaded |-> TRUE, book_average_rating |-> b, avg_movie_rating |-> m] :
        b \in PageBookRatings, m \in PageMovieRatings }

\* the start of fetchAdaptationDetails, up to its first await
fetchAdaptationDetails(byTconst) ==
    /\ page.effect = "pending"
    /\ page' = [page EXCEPT !.error = "", !.noAdaptations = FALSE, !.loading = TRUE,
                            !.effect = IF byTconst THEN "awaitingBook" ELSE "awaitingAdaptation"]
    /\ UNCHANGED <<login, req, res, queried, sent, pre, given, catalog, bookPage, searchPage>>

\* the fetch of /adaptations/books/:tconst settles
bookFetchSettles(outcome) ==
    /\ page.effect = "awaitingBook"
    /\ page' = CASE outcome = "failed" ->
                      [page EXCEPT !.error = "Failed to fetch book adaptation for the movie.",
                                   !.loading = FALSE, !.effect = "done"]
                 [] outcome \in {"empty", "nobook"} ->
                      [page EXCEPT !.noAdaptations = TRUE, !.loading = FALSE, !.effect = "done"]
                 [] OTHER -> [page EXCEPT !.effect = "awaitingAdaptation"]
    /\ UNCHANGED <<login, req, res, queried, sent, pre, given, catalog, bookPage, searchPage>>

\* the fetch of /adaptations/movies/:book_id settles with a failure
adaptationFetchFails ==
    /\ page.effect = "awaitingAdaptation"
    /\ page' = [page EXCEPT !.error = "Failed to fetch movie adaptation for the book.",
                            !.loading = FALSE, !.effect = "done"]
    /\ UNCHANGED <<login, req, res, queried, sent, pre, given, catalog, bookPage, searchPage>>

\* .. with an empty array
adaptationFetchEmpty ==
    /\ page.effect = "awaitingAdaptation"
    /\ page' = [page EXCEPT !.noAdaptations = TRUE, !.loading = FALSE, !.effect = "done"]
    /\ UNCHANGED <<login, req, res, queried, sent, pre, given, catalog, bookPage, searchPage>>

\* .. with a row, and the OMDB fetch that follows settles
adaptationFetched(row, omdbOk) ==
    /\ page.effect = "awaitingAdaptation"
    /\ page' = IF omdbOk
               THEN [page EXCEPT !.adaptationData = row, !.movieDetailsOmdb = "loaded",
                                 !.loading = FALSE, !.effect = "done"]
               ELSE [page EXCEPT !.adaptationData = row,
                                 !.error = "Failed to fetch OMDB movie details.",
                                 !.loading = FALSE, !.effect = "done"]
    /\ UNCHANGED <<login, req, res, queried, sent, pre, given, catalog, bookPage, searchPage>>

\* the route parameters change and the effect is run again
routeChanges ==
    /\ page.effect = "done"
    /\ page' = [page EXCEPT !.effect = "pending"]
    /\ UNCHANGED <<login, req, res, queried, sent, pre, given, catalog, bookPage, searchPage>>

\* adaptationData?.book_average_rating ? adaptationData.book_average_rating * 2 : 0
bookRatingNormalized(data) ==
    IF data.book_average_rating = NullFrac \/ data.book_average_rating.num = 0
    THEN Frac(0, 1)
    ELSE Frac(data.book_average_rating.num * 2, data.book_average_rating.den)

\* parseFloat(adaptationData?.avg_movie_rating) || 0
movieRating(data) ==
    IF data.avg_movie_rating = NullFrac THEN Frac(0, 1) ELSE data.avg_movie_rating

isBookRecommended(data) == FracLess(movieRating(data), bookRatingNormalized(data))

\* what the component returns for a state
Rendered(p) ==
    IF p.loading THEN [view |-> "progress", movieChip |-> FALSE, bookChip |-> FALSE]
    ELSE IF p.error # "" THEN [view |-> "error", movieChip |-> FALSE, bookChip |-> FALSE]
    ELSE IF p.noAdaptations THEN [view |-> "noAdaptations", movieChip |-> FALSE, bookChip |-> FALSE]
    ELSE [view |-> "cards",
          movieChip |-> ~isBookRecommended(p.adaptationData),
          bookChip |-> isBookRecommended(p.adaptationData)]

(***************************************************************************)
(* BookDetailsPage (client/src/pages/books/BookDetailsPage.js)             *)
(***************************************************************************)
InitialBookPage ==
    [bookDetails |-> "null", loading |-> TRUE, reviews |-> <<>>, filteredReviews |-> <<>>,
     reviewsLoading |-> TRUE, showReviews |-> FALSE, ratingFilter |-> <<1, 5>>,
     detailsFetch |-> "inFlight", reviewFetches |-> 0]

\* the arrays GET /books/reviews may answer with, ordered by rating as the
\* query orders them
ReviewResponses ==
    LET a5 == [book_review |-> "a", book_rating |-> 5]
        a2 == [book_review |-> "a", book_rating |-> 2]
        b1 == [book_review |-> "b", book_rating |-> 1]
    IN  { <<>>, <<a5>>, <<a5, b1>>, <<a5, a2>>, <<a5, a2, b1>> }

\* the ranges the rating slider (min 1, max 5) may report
RatingRanges == { <<1, 5>>, <<4, 5>>, <<1, 2>>, <<3, 3>> }

\* Array.from(new Map(data.map(review => [review.review_id || review.book_review, review])).values()):
\* a key keeps the place of its first row and the value of its last
UniqueReviews(data) ==
    LET firstOf(i) == \A j \in 1..(i - 1) : data[j].book_review # data[i].book_review
        lastWith(k) == CHOOSE j \in 1..Len(data) :
                          /\ data[j].book_review = k
                          /\ \A l \in (j + 1)..Len(data) : data[l].book_review # k
        F[i \in 0..Len(data)] ==
            IF i = 0 THEN <<>>
            ELSE IF firstOf(i) THEN Append(F[i - 1], data[lastWith(data[i].book_review)])
            ELSE F[i - 1]
    IN  F[Len(data)]

\* reviews.filter(review => review.book_rating >= newRange[0] && review.book_rating <= newRange[1])
FilterByRating(reviews, newRange) ==
    SelectSeq(reviews, LAMBDA review : review.book_rating >= newRange[1]
                                        /\ review.book_rating <= newRange[2])

\* the fetch of fetchBookDetails, started by the effect on mount, settles
fetchBookDetailsSettles(outcome) ==
    /\ bookPage.detailsFetch = "inFlight"
    /\ bookPage' = [bookPage EXCEPT
                      !.bookDetails = CASE outcome = "found" -> "loaded"
                                        [] outcome = "empty" -> "undefined"
                                        [] OTHER -> @,
                      !.loading = FALSE,
                      !.detailsFetch = "settled"]
    /\ UNCHANGED <<login, req, res, queried, sent, pre, given, catalog, page, searchPage>>

\* the Show/Hide Reviews button is part of what the component returns
ReviewsButtonShown == ~bookPage.loading /\ bookPage.bookDetails = "loaded"

\* handleShowReviews, with the start of fetchReviews up to its await
handleShowReviews ==
    /\ ReviewsButtonShown
    /\ IF ~bookPage.showReviews
       THEN /\ bookPage.reviewFetches < MaxInFlight
            /\ bookPage' = [bookPage EXCEPT !.showReviews = TRUE, !.reviewsLoading = TRUE,
                                            !.reviewFetches = @ + 1]
       ELSE bookPage' = [bookPage EXCEPT !.showReviews = FALSE]
    /\ UNCHANGED <<login, req, res, queried, sent, pre, given, catalog, page, searchPage>>

\* a fetch of fetchReviews settles with a response that is not ok, or fails
reviewsFetchFails ==
    /\ bookPage.reviewFetches > 0
    /\ bookPage' = [bookPage EXCEPT !.reviewsLoading = FALSE, !.reviewFetches = @ - 1]
    /\ UNCHANGED <<login, req, res, queried, sent, pre, given, catalog, page, searchPage>>

\* .. with an array
reviewsFetched(data) ==
    /\ bookPage.reviewFetches > 0
    /\ bookPage' = [bookPage EXCEPT !.reviews = UniqueReviews(data),
                                    !.filteredReviews = UniqueReviews(data),
                                    !.reviewsLoading = FALSE,
                                    !.reviewFetches = @ - 1]
    /\ UNCHANGED <<login, req, res, queried, sent, pre, given, catalog, page, searchPage>>

\* the slider is rendered with the reviews, once they are there
SliderShown ==
    /\ ReviewsButtonShown
    /\ bookPage.showReviews /\ ~bookPage.reviewsLoading /\ Len(bookPage.reviews) > 0

handleRatingFilterChange(newRange) ==
    /\ SliderShown
    /\ bookPage' = [bookPage EXCEPT !.ratingFilter = newRange,
                                    !.filteredReviews = FilterByRating(bookPage.reviews, newRange)]
    /\ UNCHANGED <<login, req, res, queried, sent, pre, given, catalog, page, searchPage>>

(***************************************************************************)
(* BookSearchPage and MovieSearchPage: the two components share the code   *)
(* of search and of the render guards                                      *)
(***************************************************************************)
\* a response a search fetch may get: not ok (or no response at all), or ok
\* with an array
FetchFailed == [ok |-> FALSE, body |-> <<>>]
FetchOk(body) == [ok |-> TRUE, body |-> body]

SearchResponses == { FetchFailed, FetchOk(<<>>), FetchOk(<<"r1">>), FetchOk(<<"r2", "r1">>) }

\* inFlight: the responses of the fetches under way, in the order of their
\* issue; latest: the response of the fetch issued last
InitialSearchPage(kind) ==
    [kind |-> kind, rows |-> <<>>, errorMessage |-> "", loading |-> FALSE, inFlight |-> <<>>,
     latest |-> [ok |-> FALSE, body |-> <<"none">>]]

NoResultsMessage(kind) ==
    IF kind = "books" THEN "No books found matching your search criteria."
    ELSE "No movies found matching your search criteria."

FetchErrorMessage(kind) ==
    IF kind = "books" THEN "Error fetching book data: Network response was not ok"
    ELSE "Error fetching movie data: Network response was not ok"

\* resJson.map((book, index) => ({ id: index, ...book }))
WithId(body) == [i \in 1..Len(body) |-> [id |-> i - 1, row |-> body[i]]]

\* the then / catch / finally chain, with an empty array taken for rows
SettledPageEmptySilently(p, response) ==
    IF ~response.ok
    THEN [p EXCEPT !.errorMessage = FetchErrorMessage(p.kind), !.loading = FALSE]
    ELSE [p EXCEPT !.rows = WithId(response.body), !.loading = FALSE]

\* the then / catch / finally chain of search
SettledPage(p, response) ==
    IF ~response.ok
    THEN [p EXCEPT !.errorMessage = FetchErrorMessage(p.kind), !.loading = FALSE]
    ELSE IF Len(response.body) = 0
         THEN [p EXCEPT !.errorMessage = NoResultsMessage(p.kind), !.rows = <<>>,
                        !.loading = FALSE]
    ELSE [p EXCEPT !.rows = WithId(response.body), !.loading = FALSE]

RemoveAt(s, i) == SubSeq(s, 1, i - 1) \o SubSeq(s, i + 1, Len(s))

\* search, up to the call of fetch; the button is there in every state
search(response) ==
    /\ Len(searchPage.inFlight) < MaxInFlight
    /\ searchPage' = [searchPage EXCEPT !.errorMessage = "", !.loading = TRUE,
                                        !.inFlight = Append(@, response),
                                        !.latest = response]
    /\ UNCHANGED <<login, req, res, queried, sent, pre, given, catalog, page, bookPage>>

\* the i-th of the fetches in flight settles
searchSettles(i) ==
    /\ i <= Len(searchPage.inFlight)
    /\ searchPage' = [SettledPage(searchPage, searchPage.inFlight[i])
                         EXCEPT !.inFlight = RemoveAt(searchPage.inFlight, i)]
    /\ UNCHANGED <<login, req, res, queried, sent, pre, given, catalog, page, bookPage>>

\* {!loading && !errorMessage && (<DataGrid rows={rows} .. />)}
GridRendered(p) == ~p.loading /\ p.errorMessage = ""

Init ==
    /\ login = <<>>
    /\ req = [endpoint |-> "none"]
    /\ res = NoResponse
    /\ queried = 0
    /\ sent = [calls |-> 0, queriesAfter |-> 0]
    /\ pre = <<>>
    /\ given = <<>>
    /\ catalog = BaseCatalog
    /\ page = InitialPage
    /\ bookPage = InitialBookPage
    /\ searchPage = InitialSearchPage("books")

\* the same server over any of the table contents
InitCatalog ==
    /\ login = <<>>
    /\ req = [endpoint |-> "none"]
    /\ res = NoResponse
    /\ queried = 0
    /\ sent = [calls |-> 0, queriesAfter |-> 0]
    /\ pre = <<>>
    /\ given = <<>>
    /\ catalog \in Catalogs
    /\ page = InitialPage
    /\ bookPage = InitialBookPage
    /\ searchPage = InitialSearchPage("books")

\* the two authentication requests alone
NextAuth ==
    \/ \E u \in SignupUsernames, p \in SignupPws, e \in BOOLEAN : signup(u, p, e)
    \/ \E u \in LoginUsernames, p \in LoginPasswords, e \in BOOLEAN : loginHandler(u, p, e)

SpecAuth == Init /\ [][NextAuth]_vars

Next ==
    \/ \E u \in SignupUsernames, p \in SignupPws, e \in BOOLEAN : signup(u, p, e)
    \/ \E u \in LoginUsernames, p \in LoginPasswords, e \in BOOLEAN : loginHandler(u, p, e)
    \/ \E q \in SearchQueries, e \in BOOLEAN : search_books(q, e)
    \/ \E b \in BookIdParams, e \in BOOLEAN : get_book_details(b, e)

Spec == Init /\ [][Next]_vars

\* the requests that read the rating, movie and mapping tables
NextCatalog ==
    \/ \E q \in ReviewQueries, e \in BOOLEAN : get_book_reviews(q, e)
    \/ \E b \in AdaptationBookIds, e \in BOOLEAN : get_movie_adaptations_for_book(b, e)
    \/ \E t \in TconstParams, e \in BOOLEAN : get_book_adaptations_for_movie(t, e)
    \/ \E e \in BOOLEAN : BookAndMovieOutliers(e)
    \/ \E q \in MovieQueries, e \in BOOLEAN : searchMovies(q, e)
    \/ \E t \in MovieIdParams, e \in BOOLEAN : moviesDetailsWithId(t, e)

SpecCatalog == InitCatalog /\ [][NextCatalog]_vars

NextPage ==
    \/ \E byTconst \in BOOLEAN : fetchAdaptationDetails(byTconst)
    \/ \E outcome \in {"failed", "empty", "nobook", "found"} : bookFetchSettles(outcome)
    \/ adaptationFetchFails
    \/ adaptationFetchEmpty
    \/ \E row \in AdaptationRows, omdbOk \in BOOLEAN : adaptationFetched(row, omdbOk)
    \/ routeChanges

SpecPage == Init /\ [][NextPage]_vars

NextBookPage ==
    \/ \E outcome \in {"failed", "empty", "found"} : fetchBookDetailsSettles(outcome)
    \/ handleShowReviews
    \/ reviewsFetchFails
    \/ \E data \in ReviewResponses : reviewsFetched(data)
    \/ \E newRange \in RatingRanges : handleRatingFilterChange(newRange)

SpecBookPage == Init /\ [][NextBookPage]_vars

\* either search page
InitSearch ==
    /\ login = <<>>
    /\ req = [endpoint |-> "none"]
    /\ res = NoResponse
    /\ queried = 0
    /\ sent = [calls |-> 0, queriesAfter |-> 0]
    /\ pre = <<>>
    /\ given = <<>>
    /\ catalog = BaseCatalog
    /\ page = InitialPage
    /\ bookPage = InitialBookPage
    /\ searchPage \in {InitialSearchPage("books"), InitialSearchPage("movies")}

NextSearch ==
    \/ \E response \in SearchResponses : search(response)
    \/ \E i \in 1..MaxInFlight : searchSettles(i)

SpecSearch == InitSearch /\ [][NextSearch]_vars

(***************************************************************************)
(* Properties                                                              *)
(***************************************************************************)
LoginOk == JsonObject(200, "message", "Login successful")
LoginRefused == JsonObject(401, "message", "Incorrect username/password! Try again.")
SignupRefused == JsonObject(500, "error", "User already exists or database error!")
NoBooksFound == JsonObject(404, "message", "No books found")
InvalidYears == JsonObject(404, "error", "Invalid year range")

\* table t has a row for username u whose stored password is p
HasRowWith(t, u, p) ==
    u.t = "string" /\ \E i \in 1..Len(t) : t[i].username = u /\ t[i].password = p

\* table t has a row for username u
HasRow(t, u) == u.t = "string" /\ \E i \in 1..Len(t) : t[i].username = u

\* C1: after any sequence of signups and logins, a login whose query succeeds
\* is answered 200 'Login successful' exactly when the table has a row for the
\* username whose stored password equals the password sent, and 401
\* otherwise; the stored password of a row is the pw of the signup that
\* created it, as node-postgres passed it to the INSERT.
C1_LoginIffStoredPassword ==
    /\ Len(given) = Len(login)
    /\ \A i \in 1..Len(login) : login[i].password = PgParam(given[i])
    /\ (req.endpoint = "login" /\ ~req.dbErr) =>
          IF HasRowWith(login, req.username, req.password)
          THEN res = LoginOk
          ELSE res = LoginRefused

C1_Witness ==
    /\ req.endpoint = "login" /\ ~req.dbErr
    /\ HasRowWith(login, req.username, req.password)
    /\ res = LoginOk

\* C2: a signup for a username that already has a row is answered 500 with
\* the error 'User already exists or database error!' and leaves the table as
\* it was: afterwards the only password that logs that username in is the one
\* stored by the signup that created the row.
C2_DuplicateSignupRefused ==
    (req.endpoint = "signup" /\ HasRow(pre, req.username)) =>
        /\ res = SignupRefused
        /\ login = pre
        /\ \A i \in 1..Len(login) :
              login[i].username = req.username =>
                 /\ login[i].password = PgParam(given[i])
                 /\ \A p \in LoginPasswords :
                       (loginResponse(FALSE, SelectLogin(login, req.username), p) = LoginOk)
                          <=> (p = login[i].password)

C2_Witness ==
    /\ req.endpoint = "signup" /\ ~req.dbErr
    /\ HasRow(pre, req.username)
    /\ \E i \in 1..Len(pre) : pre[i].username = req.username
                               /\ pre[i].password # PgParam(req.password)
    /\ res = SignupRefused

C4_InvalidSignupRefused ==
    (req.endpoint = "signup" /\ (req.username = Str(<<>>) \/ req.password = Undefined)) =>
        /\ res.status = 500
        /\ res.kind = "object" /\ res.field = "error"
        /\ login = pre

\* the login requests of the model that the table refuses: the username has
\* no row, or it has one and the password is not the stored one
NoRowLogins(t) == {c \in LoginUsernames \X LoginPasswords : ~HasRow(t, c[1])}
WrongPasswordLogins(t) ==
    {c \in LoginUsernames \X LoginPasswords : HasRow(t, c[1]) /\ ~HasRowWith(t, c[1], c[2])}

\* C5: a login for a username without a row and a login for an existing
\* username with a wrong password get the same response, 401 with the message
\* 'Incorrect username/password! Try again.': on every reachable table every
\* request of the first kind is answered as every request of the second
\* kind, and the response sent last, if its request is of either kind, is
\* that one.
C5_UnknownUserSameAsWrongPassword ==
    /\ \A a \in NoRowLogins(login), b \in WrongPasswordLogins(login) :
          /\ loginResponse(FALSE, SelectLogin(login, PgParam(a[1])), a[2])
               = loginResponse(FALSE, SelectLogin(login, PgParam(b[1])), b[2])
          /\ loginResponse(FALSE, SelectLogin(login, PgParam(a[1])), a[2]) = LoginRefused
    /\ (/\ req.endpoint = "login" /\ ~req.dbErr
        /\ <<req.username, req.password>> \in NoRowLogins(login) \cup WrongPasswordLogins(login))
         => res = LoginRefused

C5_Witness ==
    /\ req.endpoint = "login" /\ ~req.dbErr
    /\ <<req.username, req.password>> \in WrongPasswordLogins(login)
    /\ NoRowLogins(login) # {}
    /\ res = LoginRefused

BothYears(q) ==
    /\ q.yearLow.t = "string" /\ q.yearLow.s # <<>> /\ AllDigits(q.yearLow.s)
    /\ q.yearHigh.t = "string" /\ q.yearHigh.s # <<>> /\ AllDigits(q.yearHigh.s)

\* C7: a book search whose yearLow is a later year than its yearHigh is
\* answered 404 'Invalid year range' and sends no query, for every such pair.
C7_InvertedYearsRejected ==
    (/\ req.endpoint = "search_books"
     /\ BothYears(req.query)
     /\ DecVal(req.query.yearLow.s) > DecVal(req.query.yearHigh.s))
       => (res = InvalidYears /\ queried = 0)

\* the parameter is missing or is not a number
NotANumber(x) == x.t # "string" \/ ~IsIntText(x.s)

\* C8: a book search is answered 404 whenever yearLow or yearHigh is not a
\* valid number.
C8_NonNumericYearsRejected ==
    (/\ req.endpoint = "search_books"
     /\ (NotANumber(req.query.yearLow) \/ NotANumber(req.query.yearHigh)))
       => res.status = 404

\* C9: book details for a negative book_id are answered 404 'No books found'
\* and no query is sent.
C9_NegativeBookIdRejected ==
    (/\ req.endpoint = "get_book_details"
     /\ IsIntText(req.book_id.s)
     /\ IntTextVal(req.book_id.s) < 0)
       => (res = NoBooksFound /\ queried = 0)

C9_Witness ==
    /\ req.endpoint = "get_book_details"
    /\ req.book_id = Str(<<"-", "1">>)
    /\ res = NoBooksFound
    /\ queried = 0

\* C10: book details for a non-negative book_id that no book has are answered
\* 404 'No books found', not 200 with an empty array.
C10_UnknownBookIdNotFound ==
    (/\ req.endpoint = "get_book_details" /\ ~req.dbErr
     /\ IsIntText(req.book_id.s)
     /\ IntTextVal(req.book_id.s) >= 0
     /\ ~\E b \in books_data : b.book_id = IntTextVal(req.book_id.s))
       => res = NoBooksFound

\* C11: book details for every book_id present in books_data are answered
\* 200 with a non-empty array whose first element has that book's title as
\* book_title.
C11_KnownBookHasDetails ==
    (/\ req.endpoint = "get_book_details" /\ ~req.dbErr
     /\ IsIntText(req.book_id.s)
     /\ \E b \in books_data : b.book_id = IntTextVal(req.book_id.s))
       => /\ res.status = 200 /\ res.kind = "array"
          /\ Len(res.rows) > 0
          /\ \E b \in books_data : /\ b.book_id = IntTextVal(req.book_id.s)
                                   /\ res.rows[1].book_title = b.title

\* the rating parameters are absent or integers
ValidRatingParams(q) ==
    /\ q.minrating.t = "undefined" \/ IsIntText(q.minrating.s)
    /\ q.maxrating.t = "undefined" \/ IsIntText(q.maxrating.s)

\* C12: reviews for a non-negative book_id that has no reviews are answered
\* 200 with an empty array (the rating parameters being absent or integers and
\* the query succeeding), and reviews for a negative book_id are answered 404
\* without a query.
C12_NoReviewsEmptyArray ==
    /\ (/\ req.endpoint = "get_book_reviews" /\ ~req.dbErr
        /\ req.query.book_id.t = "string" /\ IsIntText(req.query.book_id.s)
        /\ IntTextVal(req.query.book_id.s) >= 0
        /\ ValidRatingParams(req.query)
        /\ ~\E r \in catalog.books_rating : r.book_id = IntTextVal(req.query.book_id.s))
          => res = JsonArray(200, <<>>)
    /\ (/\ req.endpoint = "get_book_reviews"
        /\ req.query.book_id.t = "string" /\ IsIntText(req.query.book_id.s)
        /\ IntTextVal(req.query.book_id.s) < 0)
          => (res.status = 404 /\ queried = 0)

\* book 2 is in books_data and the catalog holds no review of it
C12_Witness ==
    /\ req.endpoint = "get_book_reviews" /\ ~req.dbErr
    /\ req.query.book_id = Str(<<"2">>)
    /\ ValidRatingParams(req.query)
    /\ ~\E r \in catalog.books_rating : r.book_id = 2
    /\ res = JsonArray(200, <<>>)

\* the movies of movies_metadata the catalog maps to the book
MappedMovies(cat, id) ==
    {t \in Tconsts : <<id, t>> \in cat.books_movies_map /\ \E m \in movies_titles : m.tconst = t}

\* C13: the movie adaptations of a book are at most one row; when the book is
\* mapped to movies the row is that of a mapped movie and no mapped movie has
\* a strictly greater runtime; the book adaptations of a movie are at most one
\* row.
C13_LongestRuntimeAdaptation ==
    /\ (req.endpoint = "get_movie_adaptations_for_book" /\ res.kind = "array") =>
          LET id == IntTextVal(req.book_id.s)
              mapped == IF \E b \in books_data : b.book_id = id
                        THEN MappedMovies(catalog, id) ELSE {}
          IN  /\ Len(res.rows) <= 1
              /\ mapped # {} => Len(res.rows) = 1
              /\ Len(res.rows) = 1 =>
                    /\ res.rows[1].movie_id \in mapped
                    /\ \A t \in mapped :
                          catalog.runtimeMinutes[t] <= catalog.runtimeMinutes[res.rows[1].movie_id]
    /\ (req.endpoint = "get_book_adaptations_for_movie" /\ res.kind = "array") =>
          Len(res.rows) <= 1

\* book 1 is mapped to both movies, t2 runs longer and is the one returned
C13_Witness ==
    /\ req.endpoint = "get_movie_adaptations_for_book"
    /\ req.book_id = Str(<<"1">>)
    /\ MappedMovies(catalog, 1) = Tconsts
    /\ catalog.runtimeMinutes[<<"t", "1">>] < catalog.runtimeMinutes[<<"t", "2">>]
    /\ res.kind = "array" /\ Len(res.rows) = 1
    /\ res.rows[1].movie_id = <<"t", "2">>

\* the request names the mapping table's key and the table has no row for it
Unmapped ==
    \/ /\ req.endpoint = "get_movie_adaptations_for_book"
       /\ ~\E pr \in catalog.books_movies_map : Str(NatText(pr[1])) = req.book_id
    \/ /\ req.endpoint = "get_book_adaptations_for_movie"
       /\ ~\E pr \in catalog.books_movies_map : Str(pr[2]) = req.tconst

\* C14: for both adaptation endpoints, once the query is sent the response is
\* either 200 with a JSON array or 500 {error: 'Internal Server Error'}; the
\* array is empty when the mapping table has no row for the identifier.
C14_AdaptationOutcomes ==
    (/\ req.endpoint \in {"get_movie_adaptations_for_book", "get_book_adaptations_for_movie"}
     /\ queried = 1)
       => /\ \/ res = JsonObject(500, "error", "Internal Server Error")
             \/ res.status = 200 /\ res.kind = "array"
          /\ (Unmapped /\ res.status # 500) => res = JsonArray(200, <<>>)

\* sum and number of the ratings behind one title of one media type
TitleRatings(kind, title) ==
    IF kind = "Book"
    THEN {[id |-> r.id, rating |-> r.rating] :
            r \in {r \in catalog.books_rating :
                     \E b \in books_data : b.book_id = r.book_id /\ b.title = title}}
    ELSE {[id |-> m.tconst, rating |-> catalog.averageRating[m.tconst]] :
            m \in {m \in movies_titles : m.primaryTitle = title}}

StatsOf(kind) == IF kind = "Book" THEN catalog.BookStats ELSE catalog.MovieStats

\* |(sum/n - mean) / stddev| > 2 without division: |sum - mean*n| > 2*stddev*n
FarFromMean(kind, title) ==
    LET rs == TitleRatings(kind, title)
        n == Cardinality(rs)
        st == StatsOf(kind)
    IN  /\ n > 0
        /\ Abs(SumRatings(rs) - st.avg_rating * n) > 2 * st.stddev_rating * n

OutliersAnswered == req.endpoint = "BookAndMovieOutliers" /\ res.kind = "array"

\* C15: every entry of the outliers list has |z_score| > 2, z_score being
\* (average rating of the title - global mean) / global standard deviation for
\* its media type, and every title with |z| > 2 is in the list.
C15_OutliersAreBeyondTwoSigma ==
    OutliersAnswered =>
       /\ \A i \in 1..Len(res.rows) :
             LET row == res.rows[i]
                 rs == TitleRatings(row.media_type, row.media_title)
                 st == StatsOf(row.media_type)
             IN  /\ FarFromMean(row.media_type, row.media_title)
                 /\ row.z_score.num * (st.stddev_rating * Cardinality(rs))
                       = (SumRatings(rs) - st.avg_rating * Cardinality(rs)) * row.z_score.den
       /\ \A kind \in {"Book", "Movie"} :
             \A title \in {b.title : b \in books_data} \cup {m.primaryTitle : m \in movies_titles} :
                FarFromMean(kind, title) =>
                   \E i \in 1..Len(res.rows) :
                      res.rows[i].media_type = kind /\ res.rows[i].media_title = title

\* a list with a Book and a Movie entry while a rated book is left out
C15_Witness ==
    /\ OutliersAnswered
    /\ \E i, j \in 1..Len(res.rows) :
          res.rows[i].media_type = "Book" /\ res.rows[j].media_type = "Movie"
    /\ \E b \in books_data :
          /\ TitleRatings("Book", b.title) # {}
          /\ ~FarFromMean("Book", b.title)

\* C16: the outliers list is ordered by z_score, highest first, Book and
\* Movie entries together.
C16_OutliersSortedByZScore ==
    OutliersAnswered =>
       \A i, j \in 1..Len(res.rows) :
          i < j => ~FracLess(res.rows[i].z_score, res.rows[j].z_score)

\* a Movie entry with a higher z_score stands before a Book entry
C16_Witness ==
    /\ OutliersAnswered
    /\ \E i, j \in 1..Len(res.rows) :
          /\ i < j
          /\ res.rows[i].media_type = "Movie" /\ res.rows[j].media_type = "Book"
          /\ FracLess(res.rows[j].z_score, res.rows[i].z_score)

\* s without regard to case is a substring of t without regard to case
SubstringIgnoringCase(s, t) == Contains(Lower(t), Lower(s))

\* the text a search parameter stands for when it is left out
TextOf(p) == IF p.t = "string" THEN p.s ELSE <<>>

\* a movie search that gave only a title, answered with rows
TitleOnlyMovieSearch ==
    /\ req.endpoint = "searchMovies"
    /\ req.query = [MovieDefaults EXCEPT !.movieTitle = req.query.movieTitle]
    /\ res.kind = "array"

\* a book search with years that admit every book, answered with rows
AllYearsBookSearch ==
    /\ req.endpoint = "search_books"
    /\ req.query.yearLow = Str(<<"2">>) /\ req.query.yearHigh = Str(<<"9">>)
    /\ res.kind = "array"

\* C17: a movie is among the rows of GET /search/movies exactly when
\* movieTitle is, without regard to case, a substring of its primaryTitle or
\* of its originalTitle; a book is among the rows of GET /books/search when
\* title, author and genre are such substrings of its title, of one of its
\* authors and of one of its genres.
C17_CaseInsensitiveTitleMatch ==
    /\ TitleOnlyMovieSearch =>
          \A d \in {d \in movies_titles : ~d.isAdult} :
             (\E i \in 1..Len(res.rows) : res.rows[i].tconst = d.tconst)
                <=> \/ SubstringIgnoringCase(TextOf(req.query.movieTitle), d.primaryTitle)
                    \/ SubstringIgnoringCase(TextOf(req.query.movieTitle), d.originalTitle)
    /\ AllYearsBookSearch =>
          \A b \in {b \in books_data : b.year >= 2 /\ b.year <= 9} :
             (\E i \in 1..Len(res.rows) : res.rows[i].book_id = b.book_id)
                <=> /\ SubstringIgnoringCase(TextOf(req.query.title), b.title)
                    /\ \E a \in books_authors :
                          /\ a.book_id = b.book_id
                          /\ SubstringIgnoringCase(TextOf(req.query.name), a.author_name)
                    /\ \E g \in books_genres :
                          /\ g.book_id = b.book_id
                          /\ SubstringIgnoringCase(TextOf(req.query.genre), g.genre_name)

\* C18: the body of every response is a JSON array or a JSON object with a
\* message or an error field, never a bare JSON string or another shape.
C18_BodiesAreArraysOrObjects ==
    res # NoResponse =>
       \/ res.kind = "array"
       \/ res.kind = "object" /\ res.field \in {"message", "error"}

CardBookRating == bookRatingNormalized(page.adaptationData)
CardMovieRating == movieRating(page.adaptationData)

\* C20: when the cards are shown the movie card has the Recommended chip
\* exactly when the movie rating exceeds twice the book rating and the book
\* card has it exactly when twice the book rating exceeds the movie rating, so
\* that with equal ratings, or with both missing, neither card has it.
C20_ChipOnTheHigherRatedCard ==
    Rendered(page).view = "cards" =>
       /\ Rendered(page).movieChip <=> FracLess(CardBookRating, CardMovieRating)
       /\ Rendered(page).bookChip <=> FracLess(CardMovieRating, CardBookRating)

\* C21: filteredReviews is at every moment the list of the reviews whose
\* book_rating lies within the range of ratingFilter.
C21_FilteredReviewsFollowTheSlider ==
    bookPage.filteredReviews = FilterByRating(bookPage.reviews, bookPage.ratingFilter)

\* the step is the settling of the i-th search fetch in flight
SettlingOf(i) ==
    /\ i <= Len(searchPage.inFlight)
    /\ searchPage'.inFlight = RemoveAt(searchPage.inFlight, i)

\* C22: when a search fetch settles loading is false afterwards, and if it
\* failed or brought an empty array a non-empty errorMessage is shown; the
\* results grid is rendered only while loading is false and errorMessage is
\* empty.
C22_SettledSearchShowsErrorOrGrid ==
    [][ /\ \A i \in 1..MaxInFlight :
              SettlingOf(i) =>
                 /\ ~searchPage'.loading
                 /\ (~searchPage.inFlight[i].ok \/ searchPage.inFlight[i].body = <<>>)
                       => searchPage'.errorMessage # ""
        /\ GridRendered(searchPage') => (~searchPage'.loading /\ searchPage'.errorMessage = "") ]_vars

\* a search that brought an empty array has settled: no loader, the message
C22_Witness ==
    /\ searchPage.latest = FetchOk(<<>>)
    /\ searchPage.inFlight = <<>>
    /\ ~searchPage.loading
    /\ searchPage.errorMessage = NoResultsMessage(searchPage.kind)
    /\ ~GridRendered(searchPage)

YearText(y) == y.t = "string" /\ IsIntText(y.s) /\ IntTextVal(y.s) >= 0

\* C24: a book search whose years are non-negative integers with
\* yearLow <= yearHigh passes the range check, and the query is sent.
C24_OrderedYearsPassTheRangeCheck ==
    (/\ req.endpoint = "search_books"
     /\ YearText(req.query.yearLow) /\ YearText(req.query.yearHigh)
     /\ IntTextVal(req.query.yearLow.s) <= IntTextVal(req.query.yearHigh.s))
       => (res # InvalidYears /\ queried = 1)

\* every search fetch has settled, and at least one was issued
AllSearchesSettled ==
    /\ searchPage.inFlight = <<>>
    /\ searchPage.latest # InitialSearchPage(searchPage.kind).latest

\* the page shows what the response brings: the error message, the message
\* for no results, or the rows in the grid
Displays(p, response) ==
    IF ~response.ok THEN p.errorMessage = FetchErrorMessage(p.kind)
    ELSE IF response.body = <<>> THEN p.errorMessage = NoResultsMessage(p.kind)
    ELSE GridRendered(p) /\ p.rows = WithId(response.body)

\* C25: once every search fetch in flight has settled, in whatever order, the
\* page displays the result of the search issued last.
C25_LatestSearchIsDisplayed ==
    AllSearchesSettled => Displays(searchPage, searchPage.latest)

\* the number a numeric search parameter stands for, d when it is left out
NumberOf(p, d) == IF p.t = "string" THEN IntTextVal(p.s) ELSE d

MovieSearchAnswered == req.endpoint = "searchMovies" /\ res.kind = "array"

\* C26: every row of GET /search/movies has its runtimeMinutes within
\* [minRunTimeMinutes, maxRunTimeMinutes], its averageRating within
\* [minRating, maxRating], its isAdult equal to the isAdult parameter and a
\* genre that matches the genre parameter, the parameters left out being
\* isAdult = false, runtime 1..60000 and rating 0..10; no movie has two rows.
C26_MovieRowsPassEveryFilter ==
    MovieSearchAnswered =>
       /\ \A i \in 1..Len(res.rows) :
             LET row == res.rows[i]
                 q == req.query
             IN  /\ row.runtimeMinutes >= NumberOf(q.minRunTimeMinutes, 1)
                 /\ row.runtimeMinutes <= NumberOf(q.maxRunTimeMinutes, 60000)
                 /\ row.averageRating >= NumberOf(q.minRating, 0)
                 /\ row.averageRating <= NumberOf(q.maxRating, 10)
                 /\ row.isAdult = (q.isAdult = Str(<<"true">>))
                 /\ \E g \in movies_genres :
                       /\ g.movie_id = row.tconst
                       /\ SubstringIgnoringCase(TextOf(q.genre), g.genre)
       /\ \A i, j \in 1..Len(res.rows) : res.rows[i].tconst = res.rows[j].tconst => i = j

\* an adult movie with two genres is found with isAdult=true, in one row
C26_Witness ==
    /\ MovieSearchAnswered
    /\ req.query.isAdult = Str(<<"true">>)
    /\ Len(res.rows) = 1
    /\ res.rows[1].isAdult
    /\ Cardinality({g \in movies_genres : g.movie_id = res.rows[1].tconst}) = 2
====
